---- MODULE Spec2Model ----
(***************************************************************************)
(* Model of the C++ type renderer of the binding generator                 *)
(* (binding-generator/src/renderer.rs) and of the point-pair rectangle     *)
(* constructor (src/manual/core/rect.rs).                                  *)
(*                                                                         *)
(* A rendered string is a sequence of text fragments; concatenating the    *)
(* fragments gives the text the code produces.  The fragments are chosen   *)
(* so that every piece the code writes on its own (the const qualifier,    *)
(* the declarator name, a pointer or reference mark, a bracket, a list     *)
(* separator) is a fragment of its own.                                    *)
(***************************************************************************)
EXTENDS Integers, Sequences, FiniteSets, TLC

VARIABLES op, type_ref, name_style, name, extern_types, out, pt1, pt2, rect, pc

vars == <<op, type_ref, name_style, name, extern_types, out, pt1, pt2, rect, pc>>

(***************************************************************************)
(* Bounds of the model.                                                    *)
(***************************************************************************)
MaxDepth == 2
MaxTupleLen == 2
MaxTplArgs == 3
MaxCoord == 2

(***************************************************************************)
(* Type description model: TypeRef, TypeRefKind, TemplateArg.              *)
(* Every node is a record of one shape; the fields a kind does not use     *)
(* stay at their value in Node.                                            *)
(*   inner : the nested TypeRefs (array element, pointee, referenced type, *)
(*           vector element, tuple elements, smart pointer pointee,        *)
(*           typedef underlying type)                                      *)
(*   size  : Option<usize> of an Array, <<>> for None and <<n>> for Some(n)*)
(*   tpl   : template_specialization_args()                                *)
(*   sig   : the text of a function type after its return type             *)
(***************************************************************************)
Node ==
  [kind |-> "Ignored", cnst |-> FALSE, nm |-> "", inner |-> <<>>, size |-> <<>>,
   tpl |-> <<>>, sig |-> <<>>, is_std_string |-> FALSE, as_string |-> FALSE,
   by_void_ptr |-> FALSE, abstract_class_ptr |-> FALSE]

Primitive(cpp) == [Node EXCEPT !.kind = "Primitive", !.nm = cpp]
Array(inner, size) == [Node EXCEPT !.kind = "Array", !.inner = <<inner>>, !.size = size]
StdVector(elem) == [Node EXCEPT !.kind = "StdVector", !.nm = "vector", !.inner = <<elem>>]
StdTuple(elems) == [Node EXCEPT !.kind = "StdTuple", !.nm = "tuple", !.inner = elems]
Pointer(inner) == [Node EXCEPT !.kind = "Pointer", !.inner = <<inner>>]
Reference(inner) == [Node EXCEPT !.kind = "Reference", !.inner = <<inner>>]
RValueReference(inner) == [Node EXCEPT !.kind = "RValueReference", !.inner = <<inner>>]
SmartPtr(pointee) == [Node EXCEPT !.kind = "SmartPtr", !.nm = "Ptr", !.inner = <<pointee>>]
Class(nm, tpl) == [Node EXCEPT !.kind = "Class", !.nm = nm, !.tpl = tpl]
StdString == [Node EXCEPT !.kind = "Class", !.nm = "string", !.is_std_string = TRUE,
                          !.as_string = TRUE,
                          !.tpl = <<[t |-> "Typename", ref |-> <<Primitive("char")>>, lit |-> ""]>>]
Enum(nm) == [Node EXCEPT !.kind = "Enum", !.nm = nm]
Typedef(nm, underlying) == [Node EXCEPT !.kind = "Typedef", !.nm = nm, !.inner = <<underlying>>]
Generic(nm) == [Node EXCEPT !.kind = "Generic", !.nm = nm]
Function(ret, sig) == [Node EXCEPT !.kind = "Function", !.nm = ret, !.sig = sig]
Ignored == Node

Const(t) == [t EXCEPT !.cnst = TRUE]

Typename(t) == [t |-> "Typename", ref |-> <<t>>, lit |-> ""]
Constant(literal) == [t |-> "Constant", ref |-> <<>>, lit |-> literal]
Unknown == [t |-> "Unknown", ref |-> <<>>, lit |-> ""]

Styles == {"Declaration", "Reference"}

\* Constness::cpp_qual(): the qualifier with its trailing space, or nothing.
cpp_qual(constness) == IF constness THEN <<"const ">> ELSE <<>>

\* Element::cpp_name(style): the spelling of a named entity under a naming style.
cpp_name(nm, style) == IF style = "Reference" THEN <<"cv::", nm>> ELSE <<nm>>

\* Function::cpp_name(style): return type, then the rest of the function type.
func_cpp_name(t, style) == cpp_name(t.nm, style) \o t.sig

\* TypeRefKind::as_reference().is_some()
as_reference(t) == t.kind \in {"Reference", "RValueReference"}

\* TypeRef::template_specialization_args()
template_specialization_args(t) == t.tpl

\* TypeRef::new_pointer(inner) and TypeRefDesc::void()
new_pointer(inner) == Pointer(inner)
void == Primitive("void")

(***************************************************************************)
(* String helpers of the standard library as the renderer uses them.       *)
(***************************************************************************)
\* Itertools/slice join(", ") over already rendered strings.
RECURSIVE join(_)
join(ss) ==
  IF ss = <<>> THEN <<>>
  ELSE IF Len(ss) = 1 THEN Head(ss)
  ELSE Head(ss) \o <<", ">> \o join(Tail(ss))

contains(s, frag) == \E i \in 1..Len(s) : s[i] = frag

\* StringExt::replacen_in_place(from, 1, to): the first occurrence only.
replacen_first(s, from, to) ==
  IF ~contains(s, from) THEN s
  ELSE LET i == CHOOSE k \in 1..Len(s) : s[k] = from /\ \A j \in 1..(k - 1) : s[j] # from
       IN  SubSeq(s, 1, i - 1) \o to \o SubSeq(s, i + 1, Len(s))

(***************************************************************************)
(* CppRenderer                                                             *)
(***************************************************************************)
CppRenderer(style, n, ext) == [name_style |-> style, name |-> n, extern_types |-> ext]

\* recurse() that forgets the extern flag.
recurse_drops_extern(self) ==
  [name_style |-> self.name_style, name |-> "", extern_types |-> FALSE]

\* recurse() that hands the declarator name down.
recurse_keeps_name(self) ==
  [name_style |-> self.name_style, name |-> self.name, extern_types |-> self.extern_types]

recurse(self) ==
  [name_style |-> self.name_style, name |-> "", extern_types |-> self.extern_types]

space_name(self) == IF self.name = "" THEN <<>> ELSE <<" ", self.name>>

space_const_name(self, cnst) ==
  IF self.name = "" THEN <<>> ELSE <<" ">> \o cnst \o <<self.name>>

\* A tuple element renderer without the override of the naming style.
tuple_elem_renderer_inherits_style(self) ==
  [name_style |-> self.name_style, name |-> "", extern_types |-> self.extern_types]

\* The renderer of one tuple element: recurse(), then name_style forced to Reference.
tuple_elem_renderer(self) == [recurse(self) EXCEPT !.name_style = "Reference"]

\* The Primitive arm with the qualifier in the place the reference arms use.
render_primitive_const_before_name(self, t, cnst) == <<t.nm>> \o space_const_name(self, cnst)

render_primitive(self, t, cnst) == cnst \o <<t.nm>> \o space_name(self)

\* The Array arm without the test of the size: always the flat pointer.
render_array_always_flat(self, t, cnst, typ) == typ \o <<"*">> \o space_name(self)

\* typ is self.recurse().render(inner)
render_array(self, t, cnst, typ) ==
  IF t.size # <<>>
  THEN IF self.name = ""
       THEN cnst \o typ \o <<"**">>
       ELSE cnst \o typ \o <<"(*", self.name, ")[", ToString(t.size[1]), "]">>
  ELSE typ \o <<"*">> \o space_name(self)

render_std_vector(self, t, cnst, elem_type) ==
  cnst \o cpp_name(t.nm, self.name_style) \o <<"<">> \o elem_type \o <<">">> \o space_name(self)

\* elem_types is the sequence of the rendered elements, before the join
render_std_tuple(self, t, cnst, elem_types) ==
  cnst \o cpp_name(t.nm, self.name_style) \o <<"<">> \o join(elem_types) \o <<">">>
       \o space_name(self)

render_reference(self, t, cnst, typ) == typ \o <<"&">> \o space_const_name(self, cnst)

render_rvalue_reference(self, t, cnst, typ) == typ \o <<"&&">> \o space_const_name(self, cnst)

render_pointer(self, t, cnst, typ) == typ \o <<"*">> \o space_const_name(self, cnst)

render_smart_ptr(self, t, cnst, inner_type) ==
  cnst \o cpp_name(t.nm, self.name_style) \o <<"<">> \o inner_type \o <<">">> \o space_name(self)

\* tpl is render_cpp_tpl(self, type_ref)
render_class(self, t, cnst, tpl) ==
  LET out0 == cpp_name(t.nm, self.name_style)
      out1 == IF ~t.is_std_string THEN out0 \o tpl ELSE out0
  IN  cnst \o out1 \o space_name(self)

render_enum(self, t, cnst) == cnst \o cpp_name(t.nm, self.name_style) \o space_name(self)

\* underlying is self.recurse().render(underlying_type)
render_typedef(self, t, cnst, underlying) ==
  LET typ == IF as_reference(t.inner[1]) THEN underlying
             ELSE cpp_name(t.nm, self.name_style)
  IN  cnst \o typ \o space_name(self)

render_generic(self, t, cnst) == cnst \o <<t.nm>> \o space_name(self)

render_function(self, t) ==
  LET typ == func_cpp_name(t, self.name_style)
  IN  IF contains(typ, "(*)")
      THEN IF self.name # ""
           THEN replacen_first(typ, "(*)", <<"(*", self.name, ")">>)
           ELSE typ
      ELSE typ \o space_name(self)

\* The Ignored arm without the declarator name.
render_ignored_without_name(self) == <<"<ignored>">>

render_ignored(self) == <<"<ignored>">> \o space_name(self)

RECURSIVE render(_, _)

\* filter_map replaced by map: an Unknown argument keeps a slot, holding a placeholder.
tpl_entries_with_placeholder(self, generic_types) ==
  [i \in 1..Len(generic_types) |->
     IF generic_types[i].t = "Typename" THEN render(recurse(self), generic_types[i].ref[1])
     ELSE IF generic_types[i].t = "Constant" THEN <<generic_types[i].lit>>
     ELSE <<"?">>]

\* The entries render_cpp_tpl keeps (filter_map): None for Unknown.
tpl_entries(self, generic_types) ==
  LET keep == SelectSeq(generic_types, LAMBDA a : a.t # "Unknown")
  IN  [i \in 1..Len(keep) |->
         IF keep[i].t = "Typename" THEN render(recurse(self), keep[i].ref[1])
         ELSE <<keep[i].lit>>]

\* render_cpp_tpl testing the filtered list for emptiness instead of the argument list.
render_cpp_tpl_empty_when_nothing_kept(self, t) ==
  LET entries == tpl_entries(self, template_specialization_args(t))
  IN  IF entries = <<>> THEN <<>> ELSE <<"<">> \o join(entries) \o <<">">>

render_cpp_tpl(self, t) ==
  LET generic_types == template_specialization_args(t)
  IN  IF generic_types = <<>> THEN <<>>
      ELSE <<"<">> \o join(tpl_entries(self, generic_types)) \o <<">">>

render(self, t) ==
  LET cnst == cpp_qual(t.cnst)
      sub == recurse(self)
  IN  CASE t.kind = "Primitive" -> render_primitive(self, t, cnst)
        [] t.kind = "Array" -> render_array(self, t, cnst, render(sub, t.inner[1]))
        [] t.kind = "StdVector" -> render_std_vector(self, t, cnst, render(sub, t.inner[1]))
        [] t.kind = "StdTuple" ->
             render_std_tuple(self, t, cnst,
               [i \in 1..Len(t.inner) |-> render(tuple_elem_renderer(self), t.inner[i])])
        [] t.kind = "Reference" /\ ~self.extern_types ->
             render_reference(self, t, cnst, render(sub, t.inner[1]))
        [] t.kind = "RValueReference" /\ ~self.extern_types ->
             render_rvalue_reference(self, t, cnst, render(sub, t.inner[1]))
        [] t.kind = "Pointer" \/ (t.kind \in {"Reference", "RValueReference"} /\ self.extern_types) ->
             render_pointer(self, t, cnst, render(sub, t.inner[1]))
        [] t.kind = "SmartPtr" -> render_smart_ptr(self, t, cnst, render(sub, t.inner[1]))
        [] t.kind = "Class" -> render_class(self, t, cnst, render_cpp_tpl(self, t))
        [] t.kind = "Enum" -> render_enum(self, t, cnst)
        [] t.kind = "Typedef" ->
             render_typedef(self, t, cnst,
               IF as_reference(t.inner[1]) THEN render(sub, t.inner[1]) ELSE <<>>)
        [] t.kind = "Generic" -> render_generic(self, t, cnst)
        [] t.kind = "Function" -> render_function(self, t)
        [] t.kind = "Ignored" -> render_ignored(self)

(***************************************************************************)
(* CppExternReturnRenderer                                                 *)
(***************************************************************************)
extern_return_recurse == CppRenderer("Reference", "", TRUE)

\* The rewrite without the test for an abstract class pointer.
extern_return_type_ref_wraps_abstract(t) ==
  IF t.as_string THEN new_pointer(void)
  ELSE IF t.by_void_ptr THEN new_pointer(t)
  ELSE t

\* The TypeRef the extern return renderer hands to the general renderer.
extern_return_type_ref(t) ==
  IF t.as_string THEN new_pointer(void)
  ELSE IF t.by_void_ptr /\ ~t.abstract_class_ptr THEN new_pointer(t)
  ELSE t

extern_return_render(t) == render(extern_return_recurse, extern_return_type_ref(t))

(***************************************************************************)
(* Rect_: partial_min, partial_max, from_points, tl, br                    *)
(***************************************************************************)
partial_min(a, b) == IF a <= b THEN a ELSE b

\* partial_max with its branches exchanged.
partial_max_branches_exchanged(a, b) == IF b >= a THEN a ELSE b

partial_max(a, b) == IF b >= a THEN b ELSE a

Point(x, y) == [x |-> x, y |-> y]

Rect_new(x, y, width, height) == [x |-> x, y |-> y, width |-> width, height |-> height]

from_points(p1, p2) ==
  LET x == partial_min(p1.x, p2.x)
      y == partial_min(p1.y, p2.y)
  IN  Rect_new(x, y, partial_max(p1.x, p2.x) - x, partial_max(p1.y, p2.y) - y)

tl(r) == Point(r.x, r.y)

br(r) == Point(r.x + r.width, r.y + r.height)

Rect_default == Rect_new(0, 0, 0, 0)

(***************************************************************************)
(* The inputs the model draws from.                                        *)
(***************************************************************************)
Names == {"", "data", "v"}

ArraySizes == {4}

FnSigs == {<<" ", "(*)", "(", "int", ")">>,
           <<" ", "(", "int", ")">>,
           <<" ", "(*)", "(", "void", " ", "(*)", "(", ")", ")">>}

Mat == Class("Mat", <<>>)

\* Every unary wrapper around the types of S.
Wrap(S) ==
  {Array(i, <<>>) : i \in S} \cup {Array(i, <<n>>) : i \in S, n \in ArraySizes}
    \cup {StdVector(i) : i \in S} \cup {Pointer(i) : i \in S}
    \cup {Reference(i) : i \in S} \cup {RValueReference(i) : i \in S}
    \cup {SmartPtr(i) : i \in S} \cup {Typedef("Alias", i) : i \in S}

SeqsUpTo(S, n) == UNION {[1..k -> S] : k \in 0..n}

\* The types nesting starts from.
NestLeaves ==
  {Primitive("int"), Const(Primitive("int")), Primitive("double"), Mat,
   Const(Pointer(Mat)),
   Function("void", <<" ", "(*)", "(", "int", ")">>),
   Class("Vec", <<Typename(Primitive("int")), Unknown, Constant("3")>>)}

RECURSIVE Nested(_)
Nested(d) == IF d = 0 THEN NestLeaves ELSE NestLeaves \cup Wrap(Nested(d - 1))

Leaves ==
  NestLeaves \cup {Enum("Flags"), Generic("T"), Ignored, StdString}
    \cup {Function("void", sg) : sg \in FnSigs}

TupleElems == {Primitive("int"), Mat, StdVector(Mat), Reference(Mat)}

Tuples == {StdTuple(es) : es \in SeqsUpTo(TupleElems, MaxTupleLen)}

TplArgs == {Typename(Reference(Mat)), Typename(Primitive("int")), Constant("3"), Unknown}

Classes == {Class("Vec", as) : as \in SeqsUpTo(TplArgs, MaxTplArgs)} \cup {StdString}

Shapes == Leaves \cup Wrap(Nested(MaxDepth - 1)) \cup Tuples \cup Classes

TypeRefs == Shapes \cup {Const(t) : t \in Shapes}

\* The types handed to the extern return renderer, with the facets it asks for:
\* the string type is string-like, only a pointer can be an abstract class pointer.
ExternShapes ==
  {StdString, Mat, Primitive("int"), Pointer(Mat), Pointer(Primitive("char")),
   StdVector(Mat), SmartPtr(Mat), Reference(Mat), Const(Mat), Const(Pointer(Mat))}

ExternTypeRefs ==
  {[t EXCEPT !.as_string = s, !.by_void_ptr = v, !.abstract_class_ptr = a] :
     t \in ExternShapes, s \in BOOLEAN, v \in BOOLEAN, a \in BOOLEAN}

Coords == (0 - MaxCoord)..MaxCoord

Points == {Point(x, y) : x \in Coords, y \in Coords}

(***************************************************************************)
(* The state machine: one call of one entry point from its inputs.         *)
(***************************************************************************)
Init ==
  /\ pc = "start"
  /\ out = <<>>
  /\ rect = Rect_default
  /\ \/ /\ op = "render"
        /\ type_ref \in TypeRefs
        /\ name_style \in Styles
        /\ name \in Names
        /\ extern_types \in BOOLEAN
        /\ pt1 = Point(0, 0) /\ pt2 = Point(0, 0)
     \/ /\ op = "render_cpp_tpl"
        /\ type_ref \in Classes \cup {Const(t) : t \in Classes}
        /\ name_style \in Styles
        /\ name \in Names
        /\ extern_types \in BOOLEAN
        /\ pt1 = Point(0, 0) /\ pt2 = Point(0, 0)
     \/ /\ op = "extern_return_render"
        /\ type_ref \in {t \in ExternTypeRefs :
                           /\ t.is_std_string => t.as_string
                           /\ t.abstract_class_ptr => t.kind = "Pointer"}
        /\ name_style = "Reference" /\ name = "" /\ extern_types = TRUE
        /\ pt1 = Point(0, 0) /\ pt2 = Point(0, 0)
     \/ /\ op = "from_points"
        /\ type_ref = Ignored
        /\ name_style = "Reference" /\ name = "" /\ extern_types = FALSE
        /\ pt1 \in Points /\ pt2 \in Points

\* CppRenderer::new(name_style, name, extern_types).render(type_ref)
Render ==
  /\ pc = "start" /\ op = "render"
  /\ out' = render(CppRenderer(name_style, name, extern_types), type_ref)
  /\ pc' = "done"
  /\ UNCHANGED <<op, type_ref, name_style, name, extern_types, pt1, pt2, rect>>

\* render_cpp_tpl(CppRenderer::new(name_style, name, extern_types), type_ref)
RenderCppTpl ==
  /\ pc = "start" /\ op = "render_cpp_tpl"
  /\ out' = render_cpp_tpl(CppRenderer(name_style, name, extern_types), type_ref)
  /\ pc' = "done"
  /\ UNCHANGED <<op, type_ref, name_style, name, extern_types, pt1, pt2, rect>>

\* CppExternReturnRenderer.render(type_ref)
ExternReturnRender ==
  /\ pc = "start" /\ op = "extern_return_render"
  /\ out' = extern_return_render(type_ref)
  /\ pc' = "done"
  /\ UNCHANGED <<op, type_ref, name_style, name, extern_types, pt1, pt2, rect>>

\* Rect_::from_points(pt1, pt2)
FromPoints ==
  /\ pc = "start" /\ op = "from_points"
  /\ rect' = from_points(pt1, pt2)
  /\ pc' = "done"
  /\ UNCHANGED <<op, type_ref, name_style, name, extern_types, out, pt1, pt2>>

Next == Render \/ RenderCppTpl \/ ExternReturnRender \/ FromPoints

Spec == Init /\ [][Next]_vars

(***************************************************************************)
(* Operators the properties below are stated with.                         *)
(***************************************************************************)
Done(o) == pc = "done" /\ op = o

Count(s, frag) == Cardinality({i \in 1..Len(s) : s[i] = frag})

StartsWith(s, p) == Len(p) <= Len(s) /\ SubSeq(s, 1, Len(p)) = p

IsInfix(p, s) == \E i \in 0..(Len(s) - Len(p)) : SubSeq(s, i + 1, i + Len(p)) = p

\* The text after the first n fragments.
After(s, n) == SubSeq(s, n + 1, Len(s))

Unconst(t) == [t EXCEPT !.cnst = FALSE]

\* The renderer of the call, and the same renderer with an empty name.
Self == CppRenderer(name_style, name, extern_types)

Unnamed == CppRenderer(name_style, "", extern_types)

NameSuffix == IF name = "" THEN <<>> ELSE <<" ", name>>

ConstPrefix == IF type_ref.cnst THEN <<"const ">> ELSE <<>>

\* What the same call renders for the same node without its constness.
Plain == render(Self, Unconst(type_ref))

IsSizedArray(t) == t.kind = "Array" /\ t.size # <<>>

IsUnsizedArray(t) == t.kind = "Array" /\ t.size = <<>>

(***************************************************************************)
(* C1                                                                      *)
(***************************************************************************)
\* C1 as stated: every const node whose kind is not Reference or
\* RValueReference renders as the const qualifier immediately followed by the
\* node's type spelling (what the node renders without constness).
C1_ConstBeforeEveryNonReferenceKind ==
  (Done("render") /\ type_ref.cnst /\ type_ref.kind \notin {"Reference", "RValueReference"})
    => out = <<"const ">> \o Plain

ConstPrefixKinds ==
  {"Primitive", "StdVector", "StdTuple", "SmartPtr", "Class", "Enum", "Typedef", "Generic"}

\* C1 amended: a const node of kind Primitive, sized Array, StdVector, StdTuple,
\* SmartPtr, Class, Enum, Typedef or Generic renders as the const qualifier
\* immediately followed by the node's type spelling; a const Pointer puts the
\* qualifier after the "*", immediately before the declarator name, and drops it
\* when the name is empty; a const unsized Array, Function or Ignored node
\* renders exactly as the same node without constness.
C1_ConstPlacementByKind ==
  (Done("render") /\ type_ref.cnst) =>
    /\ (type_ref.kind \in ConstPrefixKinds \/ IsSizedArray(type_ref))
         => out = <<"const ">> \o Plain
    /\ (type_ref.kind = "Pointer" /\ name = "") => out = Plain
    /\ (type_ref.kind = "Pointer" /\ name # "")
         => /\ out = SubSeq(Plain, 1, Len(Plain) - 1) \o <<"const ", name>>
            /\ out[Len(out) - 3] = "*"
    /\ (IsUnsizedArray(type_ref) \/ type_ref.kind \in {"Function", "Ignored"})
         => out = Plain

C1_Witness ==
  /\ Done("render") /\ type_ref.cnst /\ name = "data"
  /\ IsSizedArray(type_ref)
  /\ out = <<"const ", "int", "(*", "data", ")[", "4", "]">>

(***************************************************************************)
(* C2                                                                      *)
(***************************************************************************)
\* C2: Reference(X) renders in general mode as render(X) followed by "&"
\* (RValueReference: "&&") and in extern mode as render(X) followed by "*";
\* in extern mode no "&" or "&&" is rendered at any depth of any tree; and
\* Reference(Primitive double) named "v" in extern mode is exactly "double* v".
C2_ExternCollapse ==
  Done("render") =>
    LET rx == render(Unnamed, type_ref.inner[1])
    IN  /\ (type_ref.kind = "Reference" /\ ~extern_types)
              => StartsWith(out, rx \o <<"&">>)
        /\ (type_ref.kind = "RValueReference" /\ ~extern_types)
              => StartsWith(out, rx \o <<"&&">>)
        /\ (type_ref.kind \in {"Reference", "RValueReference"} /\ extern_types)
              => StartsWith(out, rx \o <<"*">>)
        /\ extern_types => (~contains(out, "&") /\ ~contains(out, "&&"))
        /\ (type_ref = Reference(Primitive("double")) /\ name = "v" /\ extern_types)
              => out = <<"double", "*", " ", "v">>

\* A reference reached through a typedef, rendered in extern mode.
C2_Witness ==
  /\ Done("render") /\ extern_types
  /\ type_ref = Typedef("Alias", Reference(Mat)) /\ name = "v"
  /\ name_style = "Reference"
  /\ out = <<"cv::", "Mat", "*", " ", "v">>

(***************************************************************************)
(* C3                                                                      *)
(***************************************************************************)
\* C3: a sized Array renders as const? render(T) "**" without a name and as
\* const? render(T) "(*n)[size]" with the name n; an unsized Array renders as
\* render(T) "*" followed by " n" when named, and adds neither "(*" nor "[";
\* sized-array(int, 4) named "data" in general mode is exactly "int(*data)[4]".
C3_ArrayGrammar ==
  (Done("render") /\ type_ref.kind = "Array") =>
    LET rt == render(Unnamed, type_ref.inner[1])
        decoration == After(out, Len(rt))
    IN  /\ (IsSizedArray(type_ref) /\ name = "")
              => out = ConstPrefix \o rt \o <<"**">>
        /\ (IsSizedArray(type_ref) /\ name # "")
              => /\ out = ConstPrefix \o rt
                            \o <<"(*", name, ")[", ToString(type_ref.size[1]), "]">>
                 /\ out # rt \o <<"*", " ", name>>
        /\ IsUnsizedArray(type_ref)
              => /\ out = rt \o <<"*">> \o NameSuffix
                 /\ ~contains(decoration, "(*") /\ ~contains(decoration, ")[")
                 /\ ~contains(decoration, "]")
        /\ (type_ref = Array(Primitive("int"), <<4>>) /\ name = "data" /\ ~extern_types)
              => out = <<"int", "(*", "data", ")[", "4", "]">>

C3_Witness ==
  /\ Done("render") /\ ~extern_types /\ name = "data"
  /\ type_ref = Array(Primitive("int"), <<4>>)
  /\ out = <<"int", "(*", "data", ")[", "4", "]">>

(***************************************************************************)
(* C4                                                                      *)
(***************************************************************************)
\* The nested types render() descends into, each with the naming style its
\* renderer gets.
RenderedChildren(t) ==
  CASE t.kind \in {"Array", "StdVector", "Pointer", "Reference", "RValueReference", "SmartPtr"}
         -> {[ref |-> t.inner[1], style |-> name_style]}
    [] t.kind = "StdTuple"
         -> {[ref |-> t.inner[i], style |-> "Reference"] : i \in 1..Len(t.inner)}
    [] t.kind = "Typedef"
         -> IF as_reference(t.inner[1]) THEN {[ref |-> t.inner[1], style |-> name_style]}
            ELSE {}
    [] t.kind = "Class"
         -> IF t.is_std_string THEN {}
            ELSE {[ref |-> t.tpl[i].ref[1], style |-> name_style] :
                    i \in {j \in 1..Len(t.tpl) : t.tpl[j].t = "Typename"}}
    [] OTHER -> {}

Rename(s, from, to) == [i \in 1..Len(s) |-> IF s[i] = from THEN to ELSE s[i]]

\* C4: with a non-empty declarator name n, every nested type appears in the
\* output exactly as it renders with an empty name, n appears exactly once, and
\* the output for another name differs only in that one occurrence.
C4_NameIsolation ==
  (Done("render") /\ name # "") =>
    /\ Count(out, name) = 1
    /\ \A c \in RenderedChildren(type_ref) :
         IsInfix(render(CppRenderer(c.style, "", extern_types), c.ref), out)
    /\ \A m \in Names \ {"", name} :
         render(CppRenderer(name_style, m, extern_types), type_ref) = Rename(out, name, m)
    /\ Count(render(Unnamed, type_ref), name) = 0

C4_Witness ==
  /\ Done("render") /\ name = "data"
  /\ type_ref.kind = "StdVector" /\ type_ref.inner[1].kind = "Pointer"
  /\ Count(out, "data") = 1

(***************************************************************************)
(* C5                                                                      *)
(***************************************************************************)
\* The entries the argument list is to hold: one per argument that is not
\* Unknown, in order.
RECURSIVE ExpectedEntries(_)
ExpectedEntries(args) ==
  IF args = <<>> THEN <<>>
  ELSE LET a == Head(args)
           rest == ExpectedEntries(Tail(args))
       IN  IF a.t = "Unknown" THEN rest
           ELSE IF a.t = "Constant" THEN <<(<<a.lit>>)>> \o rest
           ELSE <<render(Unnamed, a.ref[1])>> \o rest

RECURSIVE Separated(_)
Separated(es) ==
  IF es = <<>> THEN <<>>
  ELSE IF Tail(es) = <<>> THEN Head(es)
  ELSE Head(es) \o <<", ">> \o Separated(Tail(es))

NonUnknown(args) == Cardinality({i \in 1..Len(args) : args[i].t # "Unknown"})

\* C5: a Class that is not the string type and has template arguments renders
\* as const? name "<" entries joined by ", " ">" name?, with one entry per
\* argument that is not Unknown, in order; Unknown adds no entry and no
\* separator.
C5_TemplateArgumentList ==
  (Done("render") /\ type_ref.kind = "Class" /\ ~type_ref.is_std_string
     /\ type_ref.tpl # <<>>) =>
    LET es == ExpectedEntries(type_ref.tpl)
        n == NonUnknown(type_ref.tpl)
    IN  /\ Len(es) = n
        /\ out = ConstPrefix \o cpp_name(type_ref.nm, name_style) \o <<"<">>
                   \o Separated(es) \o <<">">> \o NameSuffix
        /\ (\A i \in 1..Len(es) : ~contains(es[i], ", "))
              => Count(out, ", ") = (IF n = 0 THEN 0 ELSE n - 1)

\* Two Typename arguments and one Unknown argument between them: two entries.
C5_Witness ==
  /\ Done("render") /\ type_ref.kind = "Class" /\ extern_types
  /\ type_ref.tpl = <<Typename(Reference(Mat)), Unknown, Typename(Primitive("int"))>>
  /\ Count(out, ", ") = 1

(***************************************************************************)
(* C6                                                                      *)
(***************************************************************************)
ExternRenderer == CppRenderer("Reference", "", TRUE)

\* C6: the extern return renderer renders, with style Reference, an empty name
\* and the extern flag on: a pointer to void for a string-like type; else the
\* type behind one added pointer when it is passed by void pointer and is no
\* abstract class pointer; else the type itself.
C6_ExternReturnPriority ==
  Done("extern_return_render") =>
    /\ type_ref.as_string => out = <<"void", "*">>
    /\ (~type_ref.as_string /\ type_ref.by_void_ptr /\ ~type_ref.abstract_class_ptr)
          => /\ out = render(ExternRenderer, type_ref) \o <<"*">>
             /\ out = render(ExternRenderer, Pointer(type_ref))
    /\ (~type_ref.as_string /\ (~type_ref.by_void_ptr \/ type_ref.abstract_class_ptr))
          => out = render(ExternRenderer, type_ref)

\* A string-like type that is also passed by void pointer: rule 1 wins.
C6_Witness ==
  /\ Done("extern_return_render") /\ type_ref.is_std_string
  /\ type_ref.as_string /\ type_ref.by_void_ptr /\ ~type_ref.abstract_class_ptr
  /\ out = <<"void", "*">>

(***************************************************************************)
(* C7                                                                      *)
(***************************************************************************)
\* C7: every call of render has an outcome, which is a non-empty string; an
\* Ignored node renders as "<ignored>" followed by " " and the name when the
\* name is not empty.
C7_RenderTotal ==
  /\ (pc = "start" /\ op = "render") => ENABLED Render
  /\ Done("render") =>
       /\ Len(out) >= 1
       /\ \A i \in 1..Len(out) : out[i] \in STRING /\ out[i] # ""
       /\ type_ref.kind = "Ignored"
            => out = (IF name = "" THEN <<"<ignored>">> ELSE <<"<ignored>", " ", name>>)

C7_Witness ==
  /\ Done("render") /\ type_ref.kind = "Ignored" /\ name = "v"
  /\ out = <<"<ignored>", " ", "v">>

(***************************************************************************)
(* C8                                                                      *)
(***************************************************************************)
Lesser(a, b) == CHOOSE m \in {a, b} : \A z \in {a, b} : m <= z

Greater(a, b) == CHOOSE m \in {a, b} : \A z \in {a, b} : m >= z

\* C8: partial_min and partial_max return the lesser and the greater of their
\* arguments in either order; from_points is symmetric in its points, its
\* corner is the component-wise minimum, its width and height are not
\* negative, and tl() plus the size is br(), the component-wise maximum.
C8_FromPoints ==
  Done("from_points") =>
    /\ partial_min(pt1.x, pt2.x) = Lesser(pt1.x, pt2.x)
    /\ partial_min(pt2.x, pt1.x) = Lesser(pt1.x, pt2.x)
    /\ partial_max(pt1.y, pt2.y) = Greater(pt1.y, pt2.y)
    /\ partial_max(pt2.y, pt1.y) = Greater(pt1.y, pt2.y)
    /\ rect = from_points(pt2, pt1)
    /\ tl(rect) = Point(Lesser(pt1.x, pt2.x), Lesser(pt1.y, pt2.y))
    /\ rect.width >= 0 /\ rect.height >= 0
    /\ br(rect) = Point(tl(rect).x + rect.width, tl(rect).y + rect.height)
    /\ br(rect) = Point(Greater(pt1.x, pt2.x), Greater(pt1.y, pt2.y))

\* The points given in the order that needs both swaps.
C8_Witness ==
  /\ Done("from_points")
  /\ pt1.x > pt2.x /\ pt1.y < pt2.y
  /\ rect.width > 0 /\ rect.height > 0

(***************************************************************************)
(* C9                                                                      *)
(***************************************************************************)
OtherStyle == IF name_style = "Reference" THEN "Declaration" ELSE "Reference"

\* The text from the first "<" on.
FromBracket(s) ==
  LET i == CHOOSE k \in 1..Len(s) : s[k] = "<" /\ \A j \in 1..(k - 1) : s[j] # "<"
  IN  After(s, i - 1)

\* C9: a StdTuple renders each element with style Reference, an empty name and
\* the caller's extern flag, under either style of the enclosing renderer; only
\* the tuple's own name is spelled in the enclosing style.
C9_TupleElementsInReferenceStyle ==
  (Done("render") /\ type_ref.kind = "StdTuple") =>
    LET es == [i \in 1..Len(type_ref.inner) |->
                 render(CppRenderer("Reference", "", extern_types), type_ref.inner[i])]
    IN  /\ out = ConstPrefix \o cpp_name(type_ref.nm, name_style) \o <<"<">>
                   \o Separated(es) \o <<">">> \o NameSuffix
        /\ FromBracket(out)
             = FromBracket(render(CppRenderer(OtherStyle, name, extern_types), type_ref))

\* A tuple rendered in Declaration style whose element has a descendant with a
\* style-dependent name.
C9_Witness ==
  /\ Done("render") /\ name_style = "Declaration" /\ name = ""
  /\ type_ref = StdTuple(<<StdVector(Mat), Primitive("int")>>)
  /\ out = <<"tuple", "<", "cv::", "vector", "<", "cv::", "Mat", ">", ", ", "int", ">">>

(***************************************************************************)
(* C10                                                                     *)
(***************************************************************************)
AllUnknown(args) == \A i \in 1..Len(args) : args[i].t = "Unknown"

\* C10: render_cpp_tpl returns the empty string exactly when the argument list
\* is empty; for a non-empty list it returns the brackets, which hold nothing
\* when every argument is Unknown, so that a Class that is not the string type
\* renders as its name followed by "<>".
C10_BracketsIffArguments ==
  /\ Done("render_cpp_tpl") =>
       /\ (out = <<>>) <=> (type_ref.tpl = <<>>)
       /\ type_ref.tpl # <<>> => (Head(out) = "<" /\ out[Len(out)] = ">")
       /\ (type_ref.tpl # <<>> /\ AllUnknown(type_ref.tpl)) => out = <<"<", ">">>
  /\ (Done("render") /\ type_ref.kind = "Class" /\ ~type_ref.is_std_string
        /\ type_ref.tpl # <<>> /\ AllUnknown(type_ref.tpl))
       => out = ConstPrefix \o cpp_name(type_ref.nm, name_style) \o <<"<", ">">> \o NameSuffix

C10_Witness ==
  /\ Done("render_cpp_tpl")
  /\ type_ref.tpl = <<Unknown, Unknown>>
  /\ out = <<"<", ">">>

====
